---- MODULE Spec2Model ----
EXTENDS Integers, Sequences, FiniteSets, TLC

(***************************************************************************)
(* Model of the apiary.io client library (src/apiary.go).  Every public    *)
(* operation is one synchronous request/response round trip; the state    *)
(* records the outcome of the last call together with the environment     *)
(* (transport result, response status, declared length and body) it ran   *)
(* against.                                                               *)
(***************************************************************************)

\* ---------------------------------------------------------------- bytes
\* Characters are one-character strings; a control byte without a TLA+
\* escape is written <0xNN>, a character outside ASCII <U+XXXX>, and "BAD"
\* stands for a byte that is not valid UTF-8.
HexDigits == <<"0", "1", "2", "3", "4", "5", "6", "7", "8", "9",
               "a", "b", "c", "d", "e", "f">>
UpperHexDigits == <<"0", "1", "2", "3", "4", "5", "6", "7", "8", "9",
                    "A", "B", "C", "D", "E", "F">>
Hex2(i) == HexDigits[(i \div 16) + 1] \o HexDigits[(i % 16) + 1]

CtlCodes == (0..31) \cup {127}
CtlChar(i) == CASE i = 9 -> "\t"
                [] i = 10 -> "\n"
                [] i = 12 -> "\f"
                [] i = 13 -> "\r"
                [] OTHER -> "<0x" \o Hex2(i) \o ">"
CTLChars == {CtlChar(i) : i \in CtlCodes}

BadByte == "BAD"

UpperLetters == <<"A", "B", "C", "D", "E", "F", "G", "H", "I", "J", "K", "L", "M",
                  "N", "O", "P", "Q", "R", "S", "T", "U", "V", "W", "X", "Y", "Z">>
LowerLetters == <<"a", "b", "c", "d", "e", "f", "g", "h", "i", "j", "k", "l", "m",
                  "n", "o", "p", "q", "r", "s", "t", "u", "v", "w", "x", "y", "z">>
DigitChars == {"0", "1", "2", "3", "4", "5", "6", "7", "8", "9"}
HexChars == DigitChars \cup {"a", "b", "c", "d", "e", "f", "A", "B", "C", "D", "E", "F"}

\* the backquote cannot be written inside a TLA+ string
Backquote == "<0x60>"

\* the printable ASCII characters 0x20 .. 0x7e, in order
Printable == <<" ", "!", "\"", "#", "$", "%", "&", "'", "(", ")", "*", "+", ",", "-", ".", "/">>
             \o SubSeq(HexDigits, 1, 10)
             \o <<":", ";", "<", "=", ">", "?", "@">> \o UpperLetters
             \o <<"[", "\\", "]", "^", "_", Backquote>> \o LowerLetters
             \o <<"{", "|", "}", "~">>

\* the character of a code point
RECURSIVE HexNum(_)
HexNum(n) == IF n < 16 THEN UpperHexDigits[n + 1]
             ELSE HexNum(n \div 16) \o UpperHexDigits[(n % 16) + 1]
UChar(cp) ==
  IF cp \in 32..126 THEN Printable[cp - 31]
  ELSE IF cp \in CtlCodes THEN CtlChar(cp)
  ELSE "<U+" \o (IF cp < 4096 THEN "0" ELSE "") \o (IF cp < 256 THEN "0" ELSE "")
       \o HexNum(cp) \o ">"

\* encoding/json foldName, per character: ASCII letters fold by case, and
\* the two non-ASCII runes whose simple-folding orbit holds an ASCII letter
\* (U+017F long s, U+212A Kelvin sign) fold to it; other pieces are left
\* as they are.  foldRune takes the smallest rune of the unicode.SimpleFold
\* orbit, and U+0130 and U+0131 are orbits of their own (they have case
\* mappings but no case folding), so they do not fold to i
LowerPiece(p) ==
  IF \E i \in 1..26 : UpperLetters[i] = p
    THEN LowerLetters[CHOOSE i \in 1..26 : UpperLetters[i] = p]
  ELSE IF p = "<U+017F>" THEN "s"
  ELSE IF p = "<U+212A>" THEN "k"
  ELSE p

\* the concatenation of a sequence of strings (string(content) of the
\* bytes of a content)
RECURSIVE SeqString(_)
SeqString(c) == IF c = <<>> THEN "" ELSE Head(c) \o SeqString(Tail(c))

\* ---------------------------------------------------------------- JSON text
\* A response body is a sequence of JSON lexical tokens.  A token has at
\* least one byte, so a body read zero bytes iff it has no token.
\* A string token carries its raw text between the quotes as a sequence of
\* pieces, each a tuple of strings: <<s>> is plain text (a run of
\* lower-case text or a single character), and a piece whose first element
\* is a backslash is an escape, holding the characters that follow the
\* backslash as far as the escape extends (at most "u" and four more).
\* A number token carries the characters of its lexeme.
Tk(p) == [k |-> p, v |-> <<>>]
EStr(ps) == [k |-> "str", v |-> ps]
Plain(ss) == [i \in DOMAIN ss |-> <<ss[i]>>]
Str(s) == EStr(<< <<s>> >>)
Num(cs) == [k |-> "num", v |-> cs]
Bare(s) == [k |-> "bare", v |-> <<s>>]
Esc(c) == <<"\\", c>>
UEsc(a, b, c, d) == <<"\\", "u", a, b, c, d>>

\* encoding/json scanner: the escapes it accepts are \" \\ \/ \b \f \n \r
\* \t and \u followed by four hex digits
ShortEscChars == {"\"", "\\", "/", "b", "f", "n", "r", "t"}
IsEsc(p) == p[1] = "\\"
IsUEsc(p) == Len(p) = 6 /\ p[1] = "\\" /\ p[2] = "u" /\ \A j \in 3..6 : p[j] \in HexChars
EscOk(p) == IsUEsc(p) \/ (Len(p) = 2 /\ p[2] \in ShortEscChars)

\* a raw byte below 0x20, an unescaped quote or an invalid escape inside a
\* string literal is a syntax error
StrOk(tok) ==
  \A i \in 1..Len(tok.v) :
    IF IsEsc(tok.v[i]) THEN EscOk(tok.v[i])
    ELSE tok.v[i][1] \notin ((CTLChars \ {CtlChar(127)}) \cup {"\""})

\* end of the run of digits of c starting at i (i - 1 when there is none)
DigitRun(c, i) ==
  IF i > Len(c) THEN i - 1
  ELSE CHOOSE j \in (i - 1)..Len(c) :
         /\ \A k \in i..j : c[k] \in DigitChars
         /\ (j = Len(c) \/ c[j + 1] \notin DigitChars)

\* encoding/json scanner: a number is -? (0 | [1-9][0-9]*) (. [0-9]+)?
\* ([eE] [+-]? [0-9]+)?
NumOk(c) ==
  LET n == Len(c)
      s == IF n >= 1 /\ c[1] = "-" THEN 2 ELSE 1
      ie == IF s <= n /\ c[s] = "0" THEN s ELSE DigitRun(c, s)
      hasFrac == ie + 1 <= n /\ c[ie + 1] = "."
      fe == IF hasFrac THEN DigitRun(c, ie + 2) ELSE ie
      hasExp == fe + 1 <= n /\ c[fe + 1] \in {"e", "E"}
      ds == IF hasExp /\ fe + 2 <= n /\ c[fe + 2] \in {"+", "-"} THEN fe + 3 ELSE fe + 2
      ee == IF hasExp THEN DigitRun(c, ds) ELSE fe
  IN /\ ie >= s
     /\ hasFrac => fe >= ie + 2
     /\ hasExp => ee >= ds
     /\ ee = n

TokOk(tok) == CASE tok.k = "str" -> StrOk(tok)
                [] tok.k = "num" -> NumOk(tok.v)
                [] OTHER -> TRUE

\* value of a hex digit and of the four digits of a \u escape
HexVal(c) == CHOOSE i \in 0..15 : HexDigits[i + 1] = c \/ UpperHexDigits[i + 1] = c
U4Val(p) == LET h == [j \in 3..6 |-> HexVal(p[j])] IN 4096 * h[3] + 256 * h[4] + 16 * h[5] + h[6]

SurrogateCodes == 55296..57343

ShortVal(c) == CASE c = "b" -> CtlChar(8)
                 [] c = "f" -> "\f"
                 [] c = "n" -> "\n"
                 [] c = "r" -> "\r"
                 [] c = "t" -> "\t"
                 [] OTHER -> c

UnescapePiece_NoHTML(p) ==
  IF p[1] # "\\" THEN (IF p[1] = BadByte THEN "<U+FFFD>" ELSE p[1])
  ELSE IF p[2] # "u" THEN ShortVal(p[2])
  ELSE LET cp == U4Val(p) IN
       IF cp \in {60, 62, 38} THEN SeqString(p)
       ELSE UChar(IF cp \in SurrogateCodes THEN 65533 ELSE cp)

\* encoding/json unquote of one piece: escapes are decoded, a surrogate
\* that is not the first half of a pair and invalid UTF-8 become U+FFFD
UnescapePiece(p) ==
  IF p[1] # "\\" THEN (IF p[1] = BadByte THEN "<U+FFFD>" ELSE p[1])
  ELSE IF p[2] # "u" THEN ShortVal(p[2])
  ELSE LET cp == U4Val(p) IN UChar(IF cp \in SurrogateCodes THEN 65533 ELSE cp)

\* encoding/json unquote: a \u escape of a high surrogate followed by a
\* \u escape of a low surrogate decodes to the pair's code point
RECURSIVE UnquoteSeq(_)
UnquoteSeq(ps) ==
  IF ps = <<>> THEN <<>>
  ELSE LET u == [j \in 1..Len(ps) |-> IF IsUEsc(ps[j]) THEN U4Val(ps[j]) ELSE -1]
           pair == Len(ps) >= 2 /\ u[1] \in 55296..56319 /\ u[2] \in 56320..57343
           c == IF pair THEN UChar(65536 + (u[1] - 55296) * 1024 + (u[2] - 56320))
                ELSE UnescapePiece(Head(ps))
       IN << c >> \o UnquoteSeq(IF pair THEN Tail(Tail(ps)) ELSE Tail(ps))

Unquote(ps) == SeqString(UnquoteSeq(ps))

StrVal(tok) == Unquote(tok.v)

\* encoding/json foldName of an object key
FoldKey(ps) ==
  LET d == UnquoteSeq(ps) IN SeqString([i \in DOMAIN d |-> LowerPiece(d[i])])

ScalarKinds == {"true", "false", "null", "str", "num"}

JFail == [ok |-> FALSE, next |-> 0, val |-> Tk("none")]
Obj(ps) == [k |-> "obj", v |-> ps]
Arr(vs) == [k |-> "arr", v |-> vs]

\* encoding/json maxNestingDepth: the scanner fails when a '{' or '['
\* would make more than this many levels open
MaxNestingDepth == 10000

\* encoding/json checkValid, structure: value = scalar | object | array;
\* an object keeps its members in order, keys as raw pieces; d is the
\* number of levels open around the value
RECURSIVE ParseValue(_, _, _), ParseObj(_, _, _, _), ParseArr(_, _, _, _)
ParseValue(t, i, d) ==
  IF i > Len(t) THEN JFail
  ELSE IF t[i].k \in ScalarKinds
    THEN [ok |-> TRUE, next |-> i + 1, val |-> t[i]]
  ELSE IF t[i].k \in {"{", "["} /\ d + 1 > MaxNestingDepth
    THEN JFail
  ELSE IF t[i].k = "{"
    THEN IF i + 1 <= Len(t) /\ t[i+1].k = "}"
           THEN [ok |-> TRUE, next |-> i + 2, val |-> Obj(<<>>)]
           ELSE ParseObj(t, i + 1, <<>>, d + 1)
  ELSE IF t[i].k = "["
    THEN IF i + 1 <= Len(t) /\ t[i+1].k = "]"
           THEN [ok |-> TRUE, next |-> i + 2, val |-> Arr(<<>>)]
           ELSE ParseArr(t, i + 1, <<>>, d + 1)
  ELSE JFail

ParseObj(t, i, acc, d) ==
  IF i + 1 > Len(t) THEN JFail
  ELSE IF t[i].k = "str" /\ t[i+1].k = ":"
    THEN LET r == ParseValue(t, i + 2, d) IN
         IF ~r.ok THEN JFail
         ELSE LET acc2 == Append(acc, [key |-> t[i].v, val |-> r.val]) IN
              IF r.next <= Len(t) /\ t[r.next].k = ","
                THEN ParseObj(t, r.next + 1, acc2, d)
              ELSE IF r.next <= Len(t) /\ t[r.next].k = "}"
                THEN [ok |-> TRUE, next |-> r.next + 1, val |-> Obj(acc2)]
              ELSE JFail
  ELSE JFail

ParseArr(t, i, acc, d) ==
  LET r == ParseValue(t, i, d) IN
  IF ~r.ok THEN JFail
  ELSE LET acc2 == Append(acc, r.val) IN
       IF r.next <= Len(t) /\ t[r.next].k = ","
         THEN ParseArr(t, r.next + 1, acc2, d)
       ELSE IF r.next <= Len(t) /\ t[r.next].k = "]"
         THEN [ok |-> TRUE, next |-> r.next + 1, val |-> Arr(acc2)]
       ELSE JFail

\* one value and nothing after it, every token lexically valid (the
\* scanner stops at the first lexical or structural error alike)
ParseJSON(t) ==
  LET r == ParseValue(t, 1, 0) IN
  IF r.ok /\ r.next = Len(t) + 1 /\ \A i \in 1..Len(t) : TokOk(t[i])
    THEN [ok |-> TRUE, val |-> r.val]
    ELSE [ok |-> FALSE, val |-> Tk("none")]

\* ------------------------------------------------------- decoding targets
\* Go kinds of the result fields; a struct is a function from json name to
\* [kind, folded name]
KString == [t |-> "string"]
KBool == [t |-> "bool"]

Fld(kind, fold) == [kind |-> kind, fold |-> fold]

\* runtime size classes of small objects (up to 32 KiB)
SizeClasses == <<8, 16, 24, 32, 48, 64, 80, 96, 112, 128, 144, 160, 176, 192, 208, 224,
                240, 256, 288, 320, 352, 384, 416, 448, 480, 512, 576, 640, 704, 768,
                896, 1024, 1152, 1280, 1408, 1536, 1792, 2048, 2304, 2688, 3072, 3200,
                3456, 4096, 4864, 5376, 6144, 6528, 6784, 6912, 8192, 9472, 9728, 10240,
                10880, 12288, 13568, 14336, 16384, 18432, 19072, 20480, 21760, 24576,
                27264, 28672, 32768>>

\* the smallest size class that holds n bytes (SizeClasses is ascending)
SizeClassOf(n) ==
  SizeClasses[CHOOSE i \in 1..Len(SizeClasses) :
                SizeClasses[i] >= n /\ (i = 1 \/ SizeClasses[i - 1] < n)]

\* runtime roundupsize of an object holding pointers: a small object above
\* 512 bytes carries an 8-byte malloc header inside its size class; a
\* large object is rounded up to whole 8 KiB pages
roundupsize(size) ==
  IF size <= 32768 - 8
    THEN LET hdr == IF size > 512 THEN 8 ELSE 0
         IN SizeClassOf(size + hdr) - hdr
    ELSE ((size + 8191) \div 8192) * 8192

\* runtime nextslicecap for newLen = oldCap + 1 (Value.Grow(1) on a full
\* slice): newLen itself when it exceeds twice the old capacity (oldCap = 0),
\* double below 256, else newcap += (newcap + 768) >> 2, whose first step
\* already reaches oldCap + 1
nextslicecap(oldCap) ==
  IF oldCap + 1 > 2 * oldCap THEN oldCap + 1
  ELSE IF oldCap < 256 THEN 2 * oldCap
  ELSE oldCap + ((oldCap + 768) \div 4)

\* reflect.Value.Grow(1) on a full slice of capacity c (runtime growslice):
\* the capacity the rounded-up allocation holds
GrowCap(c, esize) == roundupsize(nextslicecap(c) * esize) \div esize

\* the largest slice capacity tabulated below (TLC stops with an error if a
\* decoded slice ever needs more)
MaxSliceCap == 255

\* a slice of structs F whose elements take esize bytes, with the capacity
\* growing a full slice of each capacity gives
KSlice(F, esize) ==
  [t |-> "slice", elem |-> F, size |-> esize,
   grow |-> [c \in 0..MaxSliceCap |-> GrowCap(c, esize)]]

TeamFields == ("teamId" :> Fld(KString, "teamid")) @@ ("teamName" :> Fld(KString, "teamname"))
              @@ ("teamApisUrl" :> Fld(KString, "teamapisurl"))
MeFields == ("userId" :> Fld(KString, "userid")) @@ ("userName" :> Fld(KString, "username"))
            @@ ("userApisUrl" :> Fld(KString, "userapisurl"))
            @@ ("Teams" :> Fld(KSlice(TeamFields, 48), "teams"))
ApiFields == ("apiName" :> Fld(KString, "apiname"))
             @@ ("apiDocumentationUrl" :> Fld(KString, "apidocumentationurl"))
             @@ ("apiSubdomain" :> Fld(KString, "apisubdomain"))
             @@ ("apiIsPrivate" :> Fld(KBool, "apiisprivate"))
             @@ ("apiIsPublic" :> Fld(KBool, "apiispublic"))
             @@ ("apiIsTeam" :> Fld(KBool, "apiisteam"))
             @@ ("apiIsPersonal" :> Fld(KBool, "apiispersonal"))
ApisFields == ("apis" :> Fld(KSlice(ApiFields, 56), "apis"))
FetchFields == ("error" :> Fld(KBool, "error")) @@ ("message" :> Fld(KString, "message"))
               @@ ("code" :> Fld(KString, "code"))
EnvelopeFields == ("error" :> Fld(KBool, "error")) @@ ("message" :> Fld(KString, "message"))

\* a slice value: its elements and the rest of its backing array up to
\* its capacity (elements a shorter decode left behind)
NilSlice == [isNil |-> TRUE, elems |-> <<>>, spare |-> <<>>]
EmptySlice == [isNil |-> FALSE, elems |-> <<>>, spare |-> <<>>]

EmptyObj == [x \in {} |-> x]

ZeroOf(kind) == CASE kind.t = "string" -> ""
                  [] kind.t = "bool"   -> FALSE
                  [] kind.t = "slice"  -> NilSlice

Zero(F) == [f \in DOMAIN F |-> ZeroOf(F[f].kind)]


\* the parsed value with every string unquoted and every object key both
\* unquoted and folded (the decoder unquotes a string when it stores it
\* and folds a key when it looks up its field)
RECURSIVE Resolve(_)
Resolve(v) ==
  CASE v.k = "str" -> [k |-> "str", v |-> StrVal(v)]
    [] v.k = "obj" -> [k |-> "obj",
                       v |-> [i \in DOMAIN v.v |->
                                [key |-> [name |-> Unquote(v.v[i].key), fold |-> FoldKey(v.v[i].key)],
                                 val |-> Resolve(v.v[i].val)]]]
    [] v.k = "arr" -> [k |-> "arr", v |-> [i \in DOMAIN v.v |-> Resolve(v.v[i])]]
    [] OTHER -> v

\* the field a (resolved) key decodes into: exact json name first, then a
\* name equal under case folding; "" when none
FieldFor(F, key) ==
  IF key.name \in DOMAIN F THEN key.name
  ELSE IF \E f \in DOMAIN F : F[f].fold = key.fold
    THEN CHOOSE f \in DOMAIN F : F[f].fold = key.fold
  ELSE ""

\* decoding a resolved value into a field of a kind, starting from its old
\* value:
\* [terr |-> a type error was saved, v |-> new value].  null leaves strings
\* and bools unchanged and sets a slice to nil; a kind mismatch is an
\* UnmarshalTypeError that leaves the field unchanged; [] makes a new
\* empty slice; array elements decode into the slice's backing array,
\* grown when full (keeping what lies beyond the length), and the length
\* is set to the number of elements.
RECURSIVE DecodeValue(_, _, _), DecodePairs(_, _, _, _), DecodeElems(_, _, _, _, _, _)
DecodeValue(v, kind, old) ==
  IF v.k = "null"
    THEN [terr |-> FALSE, v |-> IF kind.t = "slice" THEN NilSlice ELSE old]
  ELSE IF kind.t = "string"
    THEN IF v.k = "str" THEN [terr |-> FALSE, v |-> v.v] ELSE [terr |-> TRUE, v |-> old]
  ELSE IF kind.t = "bool"
    THEN IF v.k \in {"true", "false"} THEN [terr |-> FALSE, v |-> v.k = "true"]
         ELSE [terr |-> TRUE, v |-> old]
  ELSE IF v.k = "arr"
    THEN IF v.v = <<>> THEN [terr |-> FALSE, v |-> EmptySlice]
         ELSE DecodeElems(v.v, kind.elem, kind.grow, old.elems \o old.spare, 1, FALSE)
  ELSE [terr |-> TRUE, v |-> old]

DecodeElems(vs, F, grow, back, i, terr) ==
  IF i > Len(vs)
    THEN [terr |-> terr,
          v |-> [isNil |-> FALSE, elems |-> SubSeq(back, 1, Len(vs)),
                 spare |-> SubSeq(back, Len(vs) + 1, Len(back))]]
  ELSE LET b == IF i > Len(back)
                  THEN back \o [k \in 1..(grow[Len(back)] - Len(back)) |-> Zero(F)]
                  ELSE back
           d == IF vs[i].k = "obj"
                  THEN DecodePairs(vs[i].v, F, b[i], FALSE)
                ELSE IF vs[i].k = "null" THEN [terr |-> FALSE, v |-> b[i]]
                ELSE [terr |-> TRUE, v |-> b[i]]
       IN DecodeElems(vs, F, grow, [b EXCEPT ![i] = d.v], i + 1, terr \/ d.terr)

\* object members in order; unknown keys are skipped
DecodePairs(ps, F, cur, terr) ==
  IF ps = <<>> THEN [terr |-> terr, v |-> cur]
  ELSE LET f == FieldFor(F, Head(ps).key) IN
       IF f = "" THEN DecodePairs(Tail(ps), F, cur, terr)
       ELSE LET d == DecodeValue(Head(ps).val, F[f].kind, cur[f]) IN
            DecodePairs(Tail(ps), F, [cur EXCEPT ![f] = d.v], terr \/ d.terr)

\* json.Unmarshal(data, &v): isPtr when v is itself a nil pointer, which
\* the decoder allocates for any non-null value.  Decoding goes on after a
\* type error, which is reported at the end.
Unmarshal(t, F, isPtr) ==
  LET p == ParseJSON(t)
      zero == [present |-> ~isPtr, fields |-> Zero(F)]
  IN IF ~p.ok
       THEN [decErr |-> "syntax", res |-> zero]
     ELSE IF p.val.k = "null"
       THEN [decErr |-> "none", res |-> zero]
     ELSE IF p.val.k = "obj"
       THEN LET d == DecodePairs(Resolve(p.val).v, F, Zero(F), FALSE) IN
            [decErr |-> IF d.terr THEN "type" ELSE "none",
             res |-> [present |-> TRUE, fields |-> d.v]]
     ELSE [decErr |-> "type", res |-> [present |-> TRUE, fields |-> Zero(F)]]

\* ------------------------------------------------------------------ errors
Err(kind, msg) == [kind |-> kind, msg |-> msg]
NilErr == Err("nil", "")

\* net/http StatusText
StatusText(c) == CASE c = 200 -> "OK"
                   [] c = 201 -> "Created"
                   [] c = 401 -> "Unauthorized"
                   [] c = 404 -> "Not Found"
                   [] c = 500 -> "Internal Server Error"

\* http.Response.Status, for a server that sends the standard reason phrase
StatusLine(c) == ToString(c) \o " " \o StatusText(c)

checkOk_Any2xx(status) ==
  IF status < 200 \/ status >= 300
    THEN Err("status", "Bad response code: " \o StatusLine(status))
  ELSE NilErr

checkOk(status) ==
  IF status # 200 THEN Err("status", "Bad response code: " \o StatusLine(status))
  ELSE NilErr

\* --------------------------------------------------------------- requests
\* Method strings and URL paths are sequences of one-character strings.
GET == <<"G", "E", "T">>
POST == <<"P", "O", "S", "T">>

\* net/http isNotToken: token characters of RFC 7230 (letters, digits and
\* !#$%&'*+-.^_`|~)
TokenChars == {UpperLetters[i] : i \in 1..26} \cup {LowerLetters[i] : i \in 1..26}
              \cup DigitChars
              \cup {"!", "#", "$", "%", "&", "'", "*", "+", "-", ".", "^", "_",
                    Backquote, "|", "~"}

validMethod(m) == Len(m) > 0 /\ \A i \in 1..Len(m) : m[i] \in TokenChars

\* position of the first c in p, Len(p) + 1 when there is none
FirstIdx(p, c) ==
  IF \E i \in 1..Len(p) : p[i] = c
    THEN CHOOSE i \in 1..Len(p) : p[i] = c /\ \A j \in 1..(i - 1) : p[j] # c
    ELSE Len(p) + 1

\* every '%' in p[lo..hi] starts a two hex digit escape within it
EscapesOk(p, lo, hi) ==
  \A i \in lo..hi : p[i] = "%" =>
    (i + 2 <= hi /\ p[i+1] \in HexChars /\ p[i+2] \in HexChars)

\* url.Parse of ApiaryAPIURL + path: the fragment (after the first '#') is
\* cut off first and only the rest is checked for control bytes; the
\* fragment and the path (before the first '?') are unescaped, so their
\* '%' must start valid escapes; the query is kept raw
validURLPath(p) ==
  LET h == FirstIdx(p, "#")
      q == FirstIdx(SubSeq(p, 1, h - 1), "?")
  IN /\ \A i \in 1..(h - 1) : p[i] \notin CTLChars
     /\ EscapesOk(p, 1, q - 1)
     /\ EscapesOk(p, h + 1, Len(p))

\* the request target http.Client.Do sends for ApiaryAPIURL + p (url.Parse,
\* then URL.RequestURI): everything from the first '#' on is dropped, the
\* path is the text before the first '?' and the query the rest, "?"
\* included.  The path is sent as written: every path the model builds
\* from its names is one url.validEncoded keeps as it is.
RequestTarget(p) ==
  LET u == SubSeq(p, 1, FirstIdx(p, "#") - 1)
      q == FirstIdx(u, "?")
  IN [path |-> SubSeq(u, 1, q - 1), query |-> SubSeq(u, q, Len(u))]

\* the request an operation builds: method, the path it formats, the
\* target sent, headers and body
Req(method, path, headers, body) ==
  [method |-> method, path |-> path, target |-> RequestTarget(path),
   headers |-> headers, body |-> body]

\* http.NewRequest: an empty method means GET
NewRequestOk(method, path) ==
  /\ validMethod(IF method = <<>> THEN GET ELSE method)
  /\ validURLPath(path)

\* n = m * 2^s is at least 2^k (m < 2^30)
CapAtLeast(c, k) ==
  /\ c.m > 0
  /\ \/ c.s >= k
     \/ k - c.s <= 30 /\ c.m >= 2^(k - c.s)

\* make([]byte, 0, n) with n = m * 2^s: the runtime panics on a negative
\* capacity or one above its allocation limit (1 << 48 on 64-bit targets)
CapIs2To48(c) == c.s <= 48 /\ 48 - c.s <= 30 /\ c.m = 2^(48 - c.s)
MakeSliceOk(c) == c.m >= 0 /\ ~(CapAtLeast(c, 48) /\ ~CapIs2To48(c))

\* outcomes of that allocation: a capacity the makeslice check accepts can
\* still exceed the memory the heap can reserve, which is a fatal "out of
\* memory" error; at 2^47 bytes (the whole user address space on amd64) it
\* always does, from 2 GiB on it depends on the machine
AllocOutcomes(c) ==
  IF ~MakeSliceOk(c) THEN {"panic"}
  ELSE IF CapAtLeast(c, 47) THEN {"oom"}
  ELSE IF CapAtLeast(c, 31) THEN {"ok", "oom"}
  ELSE {"ok"}

AllocFailure(alloc) ==
  IF alloc = "panic" THEN Err("panic", "makeslice: cap out of range")
  ELSE Err("fatal", "runtime: out of memory")

readResponse_EmptyIfDeclaredZero(cl, alloc, toks, readErr) ==
  IF alloc # "ok"
    THEN [panic |-> TRUE, data |-> <<>>, err |-> AllocFailure(alloc)]
  ELSE IF readErr # "none"
    THEN [panic |-> FALSE, data |-> <<>>, err |-> Err("read", readErr)]
  ELSE IF Len(toks) = 0 /\ cl.m = 0
    THEN [panic |-> FALSE, data |-> <<>>, err |-> Err("empty", "Empty response")]
  ELSE [panic |-> FALSE, data |-> toks, err |-> NilErr]

readResponse_EmptyCheckFirst(cl, alloc, toks, readErr) ==
  IF alloc # "ok"
    THEN [panic |-> TRUE, data |-> <<>>, err |-> AllocFailure(alloc)]
  ELSE IF Len(toks) = 0
    THEN [panic |-> FALSE, data |-> <<>>, err |-> Err("empty", "Empty response")]
  ELSE IF readErr # "none"
    THEN [panic |-> FALSE, data |-> <<>>, err |-> Err("read", readErr)]
  ELSE [panic |-> FALSE, data |-> toks, err |-> NilErr]

readResponse(cl, alloc, toks, readErr) ==
  IF alloc # "ok"
    THEN [panic |-> TRUE, data |-> <<>>, err |-> AllocFailure(alloc)]
  ELSE IF readErr # "none"
    THEN [panic |-> FALSE, data |-> <<>>, err |-> Err("read", readErr)]
  ELSE IF Len(toks) = 0
    THEN [panic |-> FALSE, data |-> <<>>, err |-> Err("empty", "Empty response")]
  ELSE [panic |-> FALSE, data |-> toks, err |-> NilErr]

request_MethodUnchecked(method, path, e) ==
  IF ~validURLPath(path)
    THEN [attempts |-> 0, panic |-> FALSE, data |-> <<>>,
          err |-> Err("construct", "net/http: invalid method or URL")]
  ELSE IF e.doFails
    THEN [attempts |-> 1, panic |-> FALSE, data |-> <<>>,
          err |-> Err("transport", "Error")]
  ELSE LET r == readResponse(e.cl, e.alloc, e.toks, e.readErr)
       IN [attempts |-> 1, panic |-> r.panic, data |-> r.data, err |-> r.err]

request_RetryOnce(method, path, e) ==
  IF ~NewRequestOk(method, path)
    THEN [attempts |-> 0, panic |-> FALSE, data |-> <<>>,
          err |-> Err("construct", "net/http: invalid method or URL")]
  ELSE IF e.doFails
    THEN [attempts |-> 2, panic |-> FALSE, data |-> <<>>,
          err |-> Err("transport", "Error")]
  ELSE LET r == readResponse(e.cl, e.alloc, e.toks, e.readErr)
       IN [attempts |-> 1, panic |-> r.panic, data |-> r.data, err |-> r.err]

\* Apiary.request: build, send once, read the whole body
request(method, path, e) ==
  IF ~NewRequestOk(method, path)
    THEN [attempts |-> 0, panic |-> FALSE, data |-> <<>>,
          err |-> Err("construct", "net/http: invalid method or URL")]
  ELSE IF e.doFails
    THEN [attempts |-> 1, panic |-> FALSE, data |-> <<>>,
          err |-> Err("transport", "Error")]
  ELSE LET r == readResponse(e.cl, e.alloc, e.toks, e.readErr)
       IN [attempts |-> 1, panic |-> r.panic, data |-> r.data, err |-> r.err]

bearerToken_Capitalised(tok) == "Bearer " \o tok

bearerToken(tok) == "bearer " \o tok
bearerTokenLegacy(tok) == "Token " \o tok

ModernHeaders(tok) == ("Authorization" :> bearerToken(tok))
LegacyHeaders(tok) == ("Authentication" :> bearerTokenLegacy(tok))
LegacyPostHeaders(tok) == ("Authentication" :> bearerTokenLegacy(tok))
                          @@ ("Content-Type" :> "application/json; charset=utf-8")

\* \u00XX escape of a byte below 0x20 (lower-case hex)
CtlEsc(i) == UEsc("0", "0", HexDigits[(i \div 16) + 1], HexDigits[(i % 16) + 1])

EscapeChar_NoQuoteEscape(c) ==
  CASE c = "\\" -> Esc("\\")
    [] c = "\n" -> Esc("n")
    [] c = "\r" -> Esc("r")
    [] c = "\t" -> Esc("t")
    [] c = CtlChar(8) -> Esc("b")
    [] c = "\f" -> Esc("f")
    [] c \in {CtlChar(i) : i \in 0..31} -> CtlEsc(CHOOSE i \in 0..31 : CtlChar(i) = c)
    [] c = "<" -> UEsc("0", "0", "3", "c")
    [] c = ">" -> UEsc("0", "0", "3", "e")
    [] c = "&" -> UEsc("0", "0", "2", "6")
    [] c = "<U+2028>" -> UEsc("2", "0", "2", "8")
    [] c = "<U+2029>" -> UEsc("2", "0", "2", "9")
    [] c = BadByte -> UEsc("f", "f", "f", "d")
    [] OTHER -> <<c>>

\* encoding/json string encoding (Go 1.22 and later): quote and backslash,
\* the short escapes, \u00XX for the other bytes below 0x20, HTML escaping
\* of <, >, &, and invalid UTF-8 as \ufffd; DEL is written raw.  The
\* result is one string piece.
EscapeChar(c) ==
  CASE c = "\\" -> Esc("\\")
    [] c = "\n" -> Esc("n")
    [] c = "\r" -> Esc("r")
    [] c = "\t" -> Esc("t")
    [] c = CtlChar(8) -> Esc("b")
    [] c = "\f" -> Esc("f")
    [] c \in {CtlChar(i) : i \in 0..31} -> CtlEsc(CHOOSE i \in 0..31 : CtlChar(i) = c)
    [] c = "<" -> UEsc("0", "0", "3", "c")
    [] c = ">" -> UEsc("0", "0", "3", "e")
    [] c = "&" -> UEsc("0", "0", "2", "6")
    [] c = "<U+2028>" -> UEsc("2", "0", "2", "8")
    [] c = "<U+2029>" -> UEsc("2", "0", "2", "9")
    [] c = BadByte -> UEsc("f", "f", "f", "d")
    [] c = "\"" -> Esc("\"")
    [] OTHER -> <<c>>

EscapeSeq(c) == [i \in 1..Len(c) |-> EscapeChar(c[i])]

\* json.Marshal(map[string]string{"code": string(content)})
MarshalCode(content) ==
  <<Tk("{"), Str("code"), Tk(":"), EStr(EscapeSeq(content)), Tk("}")>>

\* ------------------------------------------------------------- operations
MePath == <<"m", "e">>
ApisPath == <<"m", "e", "/", "a", "p", "i", "s">>
GetTeamApisPath(team) ==
  <<"m", "e", "/", "t", "e", "a", "m", "s", "/">> \o team \o <<"/", "a", "p", "i", "s">>
FetchBlueprintPath(name) ==
  <<"b", "l", "u", "e", "p", "r", "i", "n", "t", "/", "g", "e", "t", "/">> \o name
PublishBlueprintPath(name) ==
  <<"b", "l", "u", "e", "p", "r", "i", "n", "t", "/", "p", "u", "b", "l", "i", "s", "h", "/">> \o name

\* the shared shape of Me, GetApis, GetTeamApis and FetchBlueprint:
\* send, return on error, checkOk, json.Unmarshal into the named result
Out(r, er, rs, pub) ==
  [attempts |-> r.attempts, panic |-> r.panic, data |-> r.data,
   err |-> er, res |-> rs, published |-> pub]

GetOutcome_StatusFirst(method, path, F, isPtr, e) ==
  LET r == request(method, path, e)
      zero == [present |-> ~isPtr, fields |-> Zero(F)]
  IN IF r.panic
       THEN Out(r, r.err, zero, FALSE)
     ELSE IF r.attempts = 1 /\ ~e.doFails /\ checkOk(e.status).kind # "nil"
       THEN Out(r, checkOk(e.status), zero, FALSE)
     ELSE IF r.err.kind # "nil"
       THEN Out(r, r.err, zero, FALSE)
     ELSE LET u == Unmarshal(r.data, F, isPtr)
          IN Out(r, IF u.decErr = "none" THEN NilErr ELSE Err("decode", u.decErr),
                 u.res, FALSE)

GetOutcome_NoStatusCheck(method, path, F, isPtr, e) ==
  LET r == request(method, path, e)
      zero == [present |-> ~isPtr, fields |-> Zero(F)]
  IN IF r.panic \/ r.err.kind # "nil"
       THEN Out(r, r.err, zero, FALSE)
     ELSE LET u == Unmarshal(r.data, F, isPtr)
          IN Out(r, IF u.decErr = "none" THEN NilErr ELSE Err("decode", u.decErr),
                 u.res, FALSE)

GetOutcome(method, path, F, isPtr, e) ==
  LET r == request(method, path, e)
      zero == [present |-> ~isPtr, fields |-> Zero(F)]
  IN IF r.panic \/ r.err.kind # "nil"
       THEN Out(r, r.err, zero, FALSE)
     ELSE IF checkOk(e.status).kind # "nil"
       THEN Out(r, checkOk(e.status), zero, FALSE)
     ELSE LET u == Unmarshal(r.data, F, isPtr)
          IN Out(r, IF u.decErr = "none" THEN NilErr ELSE Err("decode", u.decErr),
                 u.res, FALSE)

MeOutcome(e) == GetOutcome(GET, MePath, MeFields, FALSE, e)
GetApisOutcome(e) == GetOutcome(GET, ApisPath, ApisFields, TRUE, e)
GetTeamApisOutcome(team, e) == GetOutcome(GET, GetTeamApisPath(team), ApisFields, TRUE, e)
FetchBlueprintOutcome(name, e) == GetOutcome(GET, FetchBlueprintPath(name), FetchFields, TRUE, e)

PublishBlueprintOutcome_Expect200(name, e) ==
  LET r == request(POST, PublishBlueprintPath(name), e)
      none == [present |-> FALSE, fields |-> EmptyObj]
  IN IF r.panic \/ r.err.kind # "nil"
       THEN Out(r, r.err, none, FALSE)
     ELSE IF e.status # 200
       THEN LET u == Unmarshal(r.data, EnvelopeFields, FALSE)
            IN IF u.decErr # "none"
                 THEN Out(r, Err("decode", u.decErr), none, FALSE)
               ELSE IF u.res.fields["error"]
                 THEN Out(r, Err("rejected", "Creation failed: " \o u.res.fields["message"]),
                          none, FALSE)
               ELSE Out(r, NilErr, none, TRUE)
     ELSE Out(r, NilErr, none, TRUE)

PublishBlueprintOutcome_IgnoreErrorFlag(name, e) ==
  LET r == request(POST, PublishBlueprintPath(name), e)
      none == [present |-> FALSE, fields |-> EmptyObj]
  IN IF r.panic \/ r.err.kind # "nil"
       THEN Out(r, r.err, none, FALSE)
     ELSE IF e.status # 201
       THEN LET u == Unmarshal(r.data, EnvelopeFields, FALSE)
            IN IF u.decErr # "none"
                 THEN Out(r, Err("decode", u.decErr), none, FALSE)
               ELSE IF FALSE
                 THEN Out(r, Err("rejected", "Creation failed: " \o u.res.fields["message"]),
                          none, FALSE)
               ELSE Out(r, NilErr, none, TRUE)
     ELSE Out(r, NilErr, none, TRUE)

PublishBlueprintOutcome_Strict201(name, e) ==
  LET r == request(POST, PublishBlueprintPath(name), e)
      none == [present |-> FALSE, fields |-> EmptyObj]
  IN IF r.panic \/ r.err.kind # "nil"
       THEN Out(r, r.err, none, FALSE)
     ELSE IF e.status # 201
       THEN LET u == Unmarshal(r.data, EnvelopeFields, FALSE)
            IN IF u.decErr # "none"
                 THEN Out(r, Err("decode", u.decErr), none, FALSE)
               ELSE IF u.res.fields["error"]
                 THEN Out(r, Err("rejected", "Creation failed: " \o u.res.fields["message"]),
                          none, FALSE)
               ELSE Out(r, Err("status", "not created"), none, FALSE)
     ELSE Out(r, NilErr, none, TRUE)

PublishBlueprintOutcome_IgnoreDecodeError(name, e) ==
  LET r == request(POST, PublishBlueprintPath(name), e)
      none == [present |-> FALSE, fields |-> EmptyObj]
  IN IF r.panic \/ r.err.kind # "nil"
       THEN Out(r, r.err, none, FALSE)
     ELSE IF e.status # 201
       THEN LET u == Unmarshal(r.data, EnvelopeFields, FALSE)
            IN IF u.decErr # "none"
                 THEN Out(r, NilErr, none, TRUE)
               ELSE IF u.res.fields["error"]
                 THEN Out(r, Err("rejected", "Creation failed: " \o u.res.fields["message"]),
                          none, FALSE)
               ELSE Out(r, NilErr, none, TRUE)
     ELSE Out(r, NilErr, none, TRUE)

PublishBlueprintOutcome_PublishedOnDecodeError(name, e) ==
  LET r == request(POST, PublishBlueprintPath(name), e)
      none == [present |-> FALSE, fields |-> EmptyObj]
  IN IF r.panic \/ r.err.kind # "nil"
       THEN Out(r, r.err, none, FALSE)
     ELSE IF e.status # 201
       THEN LET u == Unmarshal(r.data, EnvelopeFields, FALSE)
            IN IF u.decErr # "none"
                 THEN Out(r, Err("decode", u.decErr), none, TRUE)
               ELSE IF u.res.fields["error"]
                 THEN Out(r, Err("rejected", "Creation failed: " \o u.res.fields["message"]),
                          none, FALSE)
               ELSE Out(r, NilErr, none, TRUE)
     ELSE Out(r, NilErr, none, TRUE)

\* Apiary.PublishBlueprint: json.Marshal of a map[string]string cannot fail
PublishBlueprintOutcome(name, e) ==
  LET r == request(POST, PublishBlueprintPath(name), e)
      none == [present |-> FALSE, fields |-> EmptyObj]
  IN IF r.panic \/ r.err.kind # "nil"
       THEN Out(r, r.err, none, FALSE)
     ELSE IF e.status # 201
       THEN LET u == Unmarshal(r.data, EnvelopeFields, FALSE)
            IN IF u.decErr # "none"
                 THEN Out(r, Err("decode", u.decErr), none, FALSE)
               ELSE IF u.res.fields["error"]
                 THEN Out(r, Err("rejected", "Creation failed: " \o u.res.fields["message"]),
                          none, FALSE)
               ELSE Out(r, NilErr, none, TRUE)
     ELSE Out(r, NilErr, none, TRUE)

\* ----------------------------------------------------------------- inputs
Tokens == {"", "t0k"}
Statuses == {200, 201, 401, 404}
\* declared ContentLength m * 2^s: unknown (-1, chunked), 0, the test's 10,
\* and declared 2^40, 2^48 and 2^62
ContentLengths == {[m |-> -1, s |-> 0], [m |-> 0, s |-> 0], [m |-> 10, s |-> 0],
                   [m |-> 1, s |-> 40], [m |-> 1, s |-> 48], [m |-> 1, s |-> 62]}
ReadErrs == {"none", "OMG!"}
\* blueprint texts, as sequences of characters or plain runs of text
Blueprints == {<<"FORMAT: 1A", "\n", "# T", "\n">>, <<"a", "<", "\"", "&">>}

\* a blueprint fetch response as the server encodes it
FetchBody(c) ==
  <<Tk("{"), Str("error"), Tk(":"), Tk("false"), Tk(","), Str("message"), Tk(":"),
    Str(""), Tk(","), Str("code"), Tk(":"), EStr(EscapeSeq(c)), Tk("}")>>

Bodies == {
  <<>>,
  <<Tk("{"), Bare("I_AM_INVALID_JSON"), Tk("}")>>,
  <<Tk("{"), Str("error"), Tk(":"), Tk("true"), Tk(","),
    Str("message"), Tk(":"), Str("bad name"), Tk("}")>>,
  <<Tk("{"), Str("error"), Tk(":"), Tk("false"), Tk("}")>>,
  <<Tk("{"), Tk("}")>>,
  <<Tk("null")>>,
  <<Tk("true")>>,
  <<Tk("{"), Str("error"), Tk(":"), Str("yes"), Tk("}")>>,
  <<Tk("{"), EStr(Plain(<<"user", "I", "d">>)), Tk(":"), Str("u1"), Tk("}")>>,
  <<Tk("{"), EStr(Plain(<<"user", "I", "d">>)), Tk(":"), Str("u1"), Tk(","),
    EStr(Plain(<<"user", "N", "ame">>)), Tk(":"), Tk("true"), Tk("}")>>,
  <<Tk("{"), Str("code"), Tk(":"), EStr(Plain(<<"a", "\n">>)), Tk("}")>>,
  <<Tk("{"), Str("code"), Tk(":"), EStr(<<<<"a">>, Esc("t")>>), Tk("}")>>,
  <<Tk("{"), Str("code"), Tk(":"), EStr(<<Esc("q")>>), Tk("}")>>,
  <<Tk("{"), Str("apis"), Tk(":"), Tk("["), Tk("]"), Tk("}")>>,
  <<Tk("{"), Str("apis"), Tk(":"), Tk("["), Tk("{"), EStr(Plain(<<"api", "N", "ame">>)), Tk(":"),
    Str("x"), Tk(","), EStr(Plain(<<"api", "I", "s", "P", "rivate">>)), Tk(":"), Tk("true"),
    Tk("}"), Tk("]"), Tk("}")>>,
  <<Tk("{"), EStr(Plain(<<"E", "rror">>)), Tk(":"), Tk("true"), Tk(","),
    Str("message"), Tk(":"), Str("m"), Tk("}")>>,
  <<Tk("{"), Str("error"), Tk(":"), Str("x"), Tk(","), Str("error"), Tk(":"), Tk("true"), Tk("}")>>,
  <<Tk("{"), Str("error"), Tk(":"), Num(<<"1">>), Tk(","), Str("code"), Tk(":"), Str("x"), Tk("}")>>,
  <<Tk("{"), Str("error"), Tk(":"), Num(<<"0", "1">>), Tk("}")>>,
  <<Tk("{"), Str("code"), Tk(":"), EStr(<<<<"\\", "u", "1", "2">>>>), Tk("}")>>,
  <<Tk("{"), Str("code"), Tk(":"),
    EStr(<<UEsc("0", "0", "E", "9"), UEsc("d", "8", "3", "d"), UEsc("d", "e", "0", "0"),
           UEsc("d", "8", "0", "0")>>), Tk("}")>>,
  <<Tk("{"), EStr(<<<<"user">>, UEsc("0", "0", "4", "9"), <<"d">>>>), Tk(":"), Str("u1"), Tk("}")>>,
  <<Tk("{"), EStr(Plain(<<"u", "<U+017F>", "er", "I", "d">>)), Tk(":"), Str("u1"), Tk("}")>>,
  <<Tk("{"), Str("Teams"), Tk(":"), Tk("["), Tk("{"), Str("teamId"), Tk(":"), Str("a"), Tk("}"),
    Tk(","), Tk("{"), Str("teamId"), Tk(":"), Str("b"), Tk("}"), Tk("]"), Tk(","),
    Str("Teams"), Tk(":"), Tk("["), Tk("{"), Tk("}"), Tk("]"), Tk(","),
    Str("Teams"), Tk(":"), Tk("["), Tk("{"), Tk("}"), Tk(","), Tk("{"), Tk("}"), Tk("]"), Tk("}")>>,
  <<Tk("["), Tk("]")>>,
  <<Tk("{"), Tk("}"), Tk("}")>>}
  \cup {FetchBody(c) : c \in Blueprints}
\* a failed buffer allocation ends the call before the status, the body or
\* the reader are looked at, so one response stands for each such length;
\* a transport failure leaves no response
Envs == {e \in UNION {[doFails : {FALSE}, status : Statuses, cl : {c}, alloc : AllocOutcomes(c),
                      toks : Bodies, readErr : ReadErrs] : c \in ContentLengths} :
           \/ e.alloc = "ok"
           \/ e.status = 200 /\ e.toks = <<Tk("{"), Tk("}")>> /\ e.readErr = "none"}
        \cup {[doFails |-> TRUE, status |-> 0, cl |-> [m |-> 0, s |-> 0], alloc |-> "ok",
               toks |-> <<>>, readErr |-> "none"]}

MaxName == 1
NameChars == {"a", "%", "?", "#", "\n"}
Names == UNION {[1..n -> NameChars] : n \in 0..MaxName}
Methods == {<<>>, GET, POST, <<";", ";", ";">>, <<"G", "\n">>, <<"G", ";">>}
MaxContent == 1
ContentChars == {"<", "\"", "\\", BadByte}
Contents == UNION {[1..n -> ContentChars] : n \in 0..MaxContent}

\* ------------------------------------------------------------------ state
VARIABLES token, op, arg, env, req, attempts, err, panicked, data, res, published

vars == <<token, op, arg, env, req, attempts, err, panicked, data, res, published>>

NoEnv == [doFails |-> FALSE, status |-> 0, cl |-> [m |-> 0, s |-> 0], alloc |-> "ok",
          toks |-> <<>>, readErr |-> "none"]
NoReq == Req(<<>>, <<>>, EmptyObj, <<>>)
NoArg == [name |-> <<>>, content |-> <<>>]

\* NewApiary: the token is fixed for the life of the client
Init ==
  /\ token \in Tokens
  /\ op = "none"
  /\ arg = NoArg
  /\ env = NoEnv
  /\ req = NoReq
  /\ attempts = 0
  /\ err = NilErr
  /\ panicked = FALSE
  /\ data = <<>>
  /\ res = [present |-> FALSE, fields |-> EmptyObj]
  /\ published = FALSE

Apply(name, a, rq, o, e) ==
  /\ op' = name
  /\ arg' = a
  /\ env' = e
  /\ req' = rq
  /\ attempts' = o.attempts
  /\ err' = o.err
  /\ panicked' = o.panic
  /\ data' = o.data
  /\ res' = o.res
  /\ published' = o.published
  /\ UNCHANGED token

\* readResponse called directly on a response
ReadResponse ==
  /\ op = "none"
  /\ \E cl \in ContentLengths, toks \in Bodies, re \in ReadErrs :
    \E alloc \in AllocOutcomes(cl) :
    LET r == readResponse(cl, alloc, toks, re) IN
    Apply("readResponse", NoArg, NoReq,
          [attempts |-> 0, panic |-> r.panic, data |-> r.data, err |-> r.err,
           res |-> [present |-> FALSE, fields |-> EmptyObj], published |-> FALSE],
          [doFails |-> FALSE, status |-> 0, cl |-> cl, alloc |-> alloc, toks |-> toks,
           readErr |-> re])

\* Apiary.request called directly with a method and a path
Request ==
  /\ op = "none"
  /\ \E m \in Methods, p \in Names, e \in Envs :
    LET r == request(m, p, e) IN
    Apply("request", [name |-> p, content |-> <<>>], Req(m, p, EmptyObj, <<>>),
          [attempts |-> r.attempts, panic |-> r.panic, data |-> r.data, err |-> r.err,
           res |-> [present |-> FALSE, fields |-> EmptyObj], published |-> FALSE], e)

Me ==
  /\ op = "none"
  /\ \E e \in Envs :
    Apply("Me", NoArg, Req(GET, MePath, ModernHeaders(token), <<>>),
          MeOutcome(e), e)

GetApis ==
  /\ op = "none"
  /\ \E e \in Envs :
    Apply("GetApis", NoArg, Req(GET, ApisPath, ModernHeaders(token), <<>>),
          GetApisOutcome(e), e)

GetTeamApis ==
  /\ op = "none"
  /\ \E team \in Names, e \in Envs :
    Apply("GetTeamApis", [name |-> team, content |-> <<>>], Req(GET, GetTeamApisPath(team), ModernHeaders(token), <<>>),
          GetTeamApisOutcome(team, e), e)

FetchBlueprint ==
  /\ op = "none"
  /\ \E name \in Names, e \in Envs :
    Apply("FetchBlueprint", [name |-> name, content |-> <<>>], Req(GET, FetchBlueprintPath(name), LegacyHeaders(token), <<>>),
          FetchBlueprintOutcome(name, e), e)

PublishBlueprint ==
  /\ op = "none"
  /\ \E name \in Names, content \in Contents, e \in Envs :
    Apply("PublishBlueprint", [name |-> name, content |-> content], Req(POST, PublishBlueprintPath(name), LegacyPostHeaders(token), MarshalCode(content)),
          PublishBlueprintOutcome(name, e), e)

Next == ReadResponse \/ Request \/ Me \/ GetApis \/ GetTeamApis
        \/ FetchBlueprint \/ PublishBlueprint

Spec == Init /\ [][Next]_vars

\* ================================================================ properties
Ops == {"Me", "GetApis", "GetTeamApis", "FetchBlueprint", "PublishBlueprint"}
GetOps == {"Me", "GetApis", "GetTeamApis", "FetchBlueprint"}

\* the call reached readResponse: called directly, or the request was sent
\* and the transport returned a response
PipelineRead ==
  \/ op = "readResponse"
  \/ op \in Ops \cup {"request"} /\ attempts = 1 /\ ~env.doFails

\* the buffer was allocated and ReadFrom returned without error
ReadCompleted == PipelineRead /\ env.alloc = "ok" /\ env.readErr = "none"

\* readResponse allocated its buffer and started reading
ReadStarted == PipelineRead /\ env.alloc = "ok"

\* readResponse handed the (non-empty) body to the caller
BodyRead == ReadCompleted /\ Len(env.toks) > 0

\* the result the caller sees is the zero value (Me) or nil (the others)
ZeroResult ==
  /\ ~published
  /\ IF op = "Me" THEN res = [present |-> TRUE, fields |-> Zero(MeFields)]
     ELSE ~res.present

\* C1: when the body read completes successfully with zero bytes, the
\* result is the "Empty response" error and no bytes, whatever the declared
\* content length and the status code.
C1_EmptyBodyIsError ==
  (ReadCompleted /\ Len(env.toks) = 0) =>
    /\ err = Err("empty", "Empty response")
    /\ data = <<>>
    /\ (op \in Ops => ZeroResult)

C1_Witness ==
  /\ op = "Me" /\ env.status = 200 /\ env.cl.m = 10 /\ Len(env.toks) = 0
  /\ err.msg = "Empty response"

\* C2: when the body reader fails, the pipeline returns that read error
\* with its message and no bytes, never the "Empty response" error.
C2_ReadErrorSurfaces ==
  (ReadStarted /\ env.readErr # "none") =>
    /\ err = Err("read", env.readErr)
    /\ data = <<>>

C2_Witness ==
  /\ op = "readResponse" /\ env.readErr = "OMG!" /\ Len(env.toks) = 0
  /\ err.msg = "OMG!"

\* C3: readResponse tolerates every declared content length (unknown -1,
\* larger or smaller than the body): it never panics.
C3_NoPanicOnContentLength ==
  PipelineRead => ~panicked

\* C4: an invalid method or URL makes request fail with a construction
\* error before the transport is ever invoked.
C4_InvalidRequestNotSent ==
  (op = "request" /\ ~NewRequestOk(req.method, req.path)) =>
    /\ err.kind = "construct"
    /\ attempts = 0

C4_Witness ==
  /\ op = "request" /\ req.method = <<";", ";", ";">>
  /\ ~env.doFails /\ err.kind = "construct"

\* C5: a transport failure makes every operation return an error and the
\* zero/nil result (published = false) after exactly one attempt.
C5_TransportFailure ==
  (op \in Ops /\ NewRequestOk(req.method, req.path) /\ env.doFails) =>
    /\ err.kind # "nil"
    /\ attempts = 1
    /\ ZeroResult

C5_Witness ==
  /\ op = "PublishBlueprint" /\ env.doFails /\ err.kind = "transport"

\* C6 (as stated): any status other than 200 makes the GET operations
\* return the status error carrying the status line, with a zero/nil result.
C6_NonOkStatus_Original ==
  (op \in GetOps /\ ReadStarted /\ env.status # 200) =>
    /\ err = Err("status", "Bad response code: " \o StatusLine(env.status))
    /\ ZeroResult

\* C6 (amended): once readResponse has returned a non-empty body, any
\* status other than 200 yields the status error and a zero/nil result.
C6_NonOkStatus ==
  (op \in GetOps /\ BodyRead /\ env.status # 200) =>
    /\ err = Err("status", "Bad response code: " \o StatusLine(env.status))
    /\ ZeroResult

C6_Witness ==
  /\ op = "Me" /\ env.status = 404 /\ err.msg = "Bad response code: 404 Not Found"
  /\ BodyRead

\* C7 (as stated): a 201 publish reports published = true and no error.
C7_Created_Original ==
  (op = "PublishBlueprint" /\ ReadStarted /\ env.status = 201) =>
    published /\ err = NilErr

\* C7 (amended): a 201 publish whose body was read reports success.
C7_Created ==
  (op = "PublishBlueprint" /\ BodyRead /\ env.status = 201) =>
    published /\ err = NilErr

C7_Witness ==
  /\ op = "PublishBlueprint" /\ env.status = 201 /\ BodyRead /\ published
  /\ Unmarshal(env.toks, EnvelopeFields, FALSE).decErr # "none"

EnvelopeOf(t) == Unmarshal(t, EnvelopeFields, FALSE)

\* C8: a non-201 publish whose body decodes to {error: true, message: M}
\* reports published = false and the rejection "Creation failed: M".
C8_Rejected ==
  (/\ op = "PublishBlueprint" /\ BodyRead /\ env.status # 201
   /\ EnvelopeOf(env.toks).decErr = "none"
   /\ EnvelopeOf(env.toks).res.fields["error"]) =>
    /\ ~published
    /\ err = Err("rejected", "Creation failed: " \o EnvelopeOf(env.toks).res.fields["message"])

C8_Witness ==
  /\ op = "PublishBlueprint" /\ env.status = 404
  /\ err.msg = "Creation failed: bad name"

\* C9: a non-201 publish whose envelope decodes with error = false still
\* reports published = true and no error.
C9_NotCreatedButNoError ==
  (/\ op = "PublishBlueprint" /\ BodyRead /\ env.status # 201
   /\ EnvelopeOf(env.toks).decErr = "none"
   /\ ~EnvelopeOf(env.toks).res.fields["error"]) =>
    published /\ err = NilErr

C9_Witness ==
  /\ op = "PublishBlueprint" /\ env.status = 200 /\ published
  /\ env.toks = <<Tk("{"), Str("error"), Tk(":"), Tk("false"), Tk("}")>>

\* C10 (as stated): a non-201 publish whose body does not decode as the
\* envelope returns a decode error and published = false.
C10_BadEnvelope_Original ==
  (/\ op = "PublishBlueprint" /\ ReadStarted /\ env.status # 201
   /\ EnvelopeOf(env.toks).decErr # "none") =>
    err.kind = "decode" /\ ~published

\* C10 (amended): the same once readResponse has returned a non-empty body.
C10_BadEnvelope ==
  (/\ op = "PublishBlueprint" /\ BodyRead /\ env.status # 201
   /\ EnvelopeOf(env.toks).decErr # "none") =>
    err.kind = "decode" /\ ~published

C10_Witness ==
  /\ op = "PublishBlueprint" /\ env.status = 200 /\ err.kind = "decode"
  /\ env.toks = <<Tk("{"), Bare("I_AM_INVALID_JSON"), Tk("}")>>

FieldsOf(o) == CASE o = "Me" -> MeFields
                 [] o \in {"GetApis", "GetTeamApis"} -> ApisFields
                 [] o = "FetchBlueprint" -> FetchFields

\* C11: a 200 response whose body does not decode as the expected shape
\* (syntax error or type mismatch) gives a decode error and a zero/nil
\* result, never a partially decoded one.
C11_DecodeFailureZero ==
  (/\ op \in GetOps /\ BodyRead /\ env.status = 200
   /\ Unmarshal(env.toks, FieldsOf(op), op # "Me").decErr # "none") =>
    err.kind = "decode" /\ ZeroResult

\* C12: Me, GetApis and GetTeamApis send only Authorization: bearer <token>;
\* FetchBlueprint and PublishBlueprint send Authentication: Token <token>
\* and never Authorization.
C12_AuthScheme ==
  /\ op \in {"Me", "GetApis", "GetTeamApis"} =>
       req.headers = ("Authorization" :> ("bearer " \o token))
  /\ op = "FetchBlueprint" =>
       req.headers = ("Authentication" :> ("Token " \o token))
  /\ op = "PublishBlueprint" =>
       /\ "Authentication" \in DOMAIN req.headers
       /\ req.headers["Authentication"] = "Token " \o token
       /\ "Authorization" \notin DOMAIN req.headers

C12_Witness ==
  /\ op = "Me" /\ token = "t0k" /\ attempts = 1
  /\ req.headers["Authorization"] = "bearer t0k"

\* expected request line of each operation, as written in the endpoint table
ExpectedMethod(o) == IF o = "PublishBlueprint" THEN <<"P", "O", "S", "T">>
                     ELSE <<"G", "E", "T">>
ExpectedPath(o, name) ==
  CASE o = "Me" -> <<"m", "e">>
    [] o = "GetApis" -> <<"m", "e", "/", "a", "p", "i", "s">>
    [] o = "GetTeamApis" ->
         <<"m", "e", "/", "t", "e", "a", "m", "s", "/">> \o name \o <<"/", "a", "p", "i", "s">>
    [] o = "FetchBlueprint" ->
         <<"b", "l", "u", "e", "p", "r", "i", "n", "t", "/", "g", "e", "t", "/">> \o name
    [] o = "PublishBlueprint" ->
         <<"b", "l", "u", "e", "p", "r", "i", "n", "t", "/",
           "p", "u", "b", "l", "i", "s", "h", "/">> \o name

\* the request body read back as JSON: a single "code" string member
BodyCode(b) ==
  LET p == ParseJSON(b) IN
  IF /\ p.ok /\ p.val.k = "obj" /\ Len(p.val.v) = 1
     /\ Unquote(p.val.v[1].key) = "code" /\ p.val.v[1].val.k = "str"
    THEN StrVal(p.val.v[1].val) ELSE "<no code>"

RequestAsDocumented ==
  /\ attempts = 1
  /\ req.method = ExpectedMethod(op)
  /\ req.target = [path |-> ExpectedPath(op, arg.name), query |-> <<>>]
  /\ op = "PublishBlueprint" =>
       /\ req.headers["Content-Type"] = "application/json; charset=utf-8"
       /\ BodyCode(req.body) = SeqString(arg.content)

\* C13 (as stated): every operation issues exactly one request with its
\* method and path, the name inserted verbatim, and a publish body
\* {"code": content}.
C13_Endpoints_Original ==
  op \in Ops => RequestAsDocumented

\* C13 (amended): the same for names that form a valid URL and contain no
\* '#' or '?' (which would end the path), and contents that are valid UTF-8.
C13_Endpoints ==
  (/\ op \in Ops /\ validURLPath(arg.name)
   /\ \A i \in 1..Len(arg.name) : arg.name[i] \notin {"#", "?"}
   /\ \A i \in 1..Len(arg.content) : arg.content[i] # BadByte) =>
    RequestAsDocumented

C13_Witness ==
  /\ op = "PublishBlueprint" /\ arg.content = <<"\"">> /\ arg.name = <<"a">>
  /\ attempts = 1

\* C14 (as stated): with an empty token every operation sends its request,
\* and a 401 answer surfaces as the status error with a zero/nil result.
C14_EmptyToken_Original ==
  (/\ op \in Ops /\ token = "" /\ NewRequestOk(req.method, req.path)
   /\ BodyRead /\ env.status = 401) =>
    /\ attempts = 1
    /\ err.kind = "status"
    /\ ZeroResult

\* C14 (amended): the empty token is sent as is; a 401 answer is the status
\* error for the GET operations, while PublishBlueprint reports the
\* envelope's outcome and published = true exactly when the error is nil.
C14_EmptyToken ==
  /\ (op \in Ops /\ token = "" /\ NewRequestOk(req.method, req.path)) => attempts = 1
  /\ (op \in GetOps /\ token = "" /\ BodyRead /\ env.status = 401) =>
       /\ err = Err("status", "Bad response code: 401 Unauthorized")
       /\ ZeroResult
  /\ (op = "PublishBlueprint" /\ token = "" /\ BodyRead /\ env.status = 401) =>
       LET u == EnvelopeOf(env.toks) IN
       /\ u.decErr # "none" => err.kind = "decode" /\ ~published
       /\ (u.decErr = "none" /\ u.res.fields["error"]) =>
            /\ err = Err("rejected", "Creation failed: " \o u.res.fields["message"])
            /\ ~published
       /\ (u.decErr = "none" /\ ~u.res.fields["error"]) => err = NilErr /\ published

C14_Witness ==
  /\ op = "PublishBlueprint" /\ token = "" /\ env.status = 401
  /\ err.kind = "rejected"

ExpectedStatus(o) == IF o = "PublishBlueprint" THEN 201 ELSE 200

\* C15 (as stated): a nil error means the status was the operation's
\* success code and the body decoded as the expected shape.
C15_NilErrorMeansSuccess_Original ==
  (op \in Ops /\ err = NilErr) =>
    /\ env.status = ExpectedStatus(op)
    /\ Unmarshal(env.toks, IF op = "PublishBlueprint" THEN EnvelopeFields ELSE FieldsOf(op),
                 op \notin {"Me", "PublishBlueprint"}).decErr = "none"

\* C15 (amended): for the GET operations a nil error means status 200 and
\* a body that decoded; for PublishBlueprint it means status 201 with a
\* non-empty body, or another status whose envelope decoded with error false.
C15_NilErrorMeansSuccess ==
  /\ (op \in GetOps /\ err = NilErr) =>
       /\ env.status = 200
       /\ Unmarshal(env.toks, FieldsOf(op), op # "Me").decErr = "none"
  /\ (op = "PublishBlueprint" /\ err = NilErr) =>
       \/ env.status = 201 /\ Len(env.toks) > 0
       \/ /\ env.status # 201
          /\ EnvelopeOf(env.toks).decErr = "none"
          /\ ~EnvelopeOf(env.toks).res.fields["error"]

C15_Witness ==
  /\ op = "PublishBlueprint" /\ err = NilErr /\ env.status = 200

\* C16: a 200 fetch response {"error":false,"message":"","code":C} decodes
\* to Error = false, Message = "" and Code = C exactly, newlines included.
C16_FetchRoundTrip ==
  (/\ op = "FetchBlueprint" /\ BodyRead /\ env.status = 200
   /\ \E c \in Blueprints : env.toks = FetchBody(c)) =>
    /\ err = NilErr
    /\ res.present
    /\ \E c \in Blueprints :
         /\ env.toks = FetchBody(c)
         /\ res.fields = [error |-> FALSE, message |-> "", code |-> SeqString(c)]

C16_Witness ==
  /\ op = "FetchBlueprint" /\ err = NilErr
  /\ env.toks = FetchBody(<<"a", "<", "\"", "&">>)

\* C17: the body is read, and the empty-body and read-error checks applied,
\* before the status is examined: an empty non-success response is the
\* "Empty response" error, and an empty 201 publish is not published.
C17_BodyBeforeStatus ==
  /\ (op \in Ops /\ ReadCompleted /\ Len(env.toks) = 0) =>
       /\ err = Err("empty", "Empty response")
       /\ ZeroResult
  /\ (op \in Ops /\ ReadStarted /\ env.readErr # "none") =>
       err = Err("read", env.readErr)

C17_Witness ==
  /\ op = "GetApis" /\ env.status = 404 /\ Len(env.toks) = 0
  /\ err.msg = "Empty response"

\* C18: PublishBlueprint reports published = true exactly when its error
\* is nil.
C18_PublishedIffNoError ==
  op = "PublishBlueprint" => (published <=> err = NilErr)

C18_Witness ==
  /\ op = "PublishBlueprint" /\ err.kind = "decode" /\ ~published
====
